---- MODULE Spec2Model ----
(***************************************************************************)
(* The async-fragment tag renderer, src/taglibs/async/async-fragment-tag.js *)
(*                                                                         *)
(* render(input, out) asks a data provider of unknown shape for data and   *)
(* renders the fragment when the provider, or a timer, calls renderBody.   *)
(* Every render() call owns a closure (done, timeoutId, asyncOut, ...);    *)
(* the calls on one page share the main writer `out` and out.global.       *)
(*                                                                         *)
(* One action is one run-to-completion job of the event loop: the call of  *)
(* render() with everything the provider does before it returns, a later   *)
(* callback of a function provider, the settling of a promise, the firing  *)
(* of the timer.  The rendering callbacks of the template (input.renderBody,*)
(* renderError, renderTimeout, renderPlaceholder) and the writers are      *)
(* recorded as operations in `ops`, in the order the code performs them.   *)
(***************************************************************************)
EXTENDS Integers, Sequences, FiniteSets, TLC

\* ------------------------------------------------------------------ bounds
\* render() calls on one page (one `out`).
NFrags == 2
\* Calls of the callback a function provider makes in all (before and after
\* it returns).
MaxCalls == 2
\* Events emitted on the separate writer of a client-reorder fragment.
MaxEmits == 2

\* ------------------------------------------------------------ constants
\* timeout = 10000 when input.timeout is null or undefined.
DefaultTimeout == 10000
\* out.beginAsync({timeout: 0, ...})
WriterTimeout == 0

\* null or undefined, where a string or a callback is expected.
Null == "null"
\* null or undefined, where a number is expected: no value is <<>>, the
\* number n is <<n>>.
Absent == <<>>
Frags == 1..NFrags

\* The main writer, the writer out.beginAsync() returns to invocation i and
\* the in-memory writer asyncWriter.create() returns to invocation i.
Out == [writer |-> "out", owner |-> 0]
NestedWriter(i) == [writer |-> "beginAsync", owner |-> i]
BufferWriter(i) == [writer |-> "create", owner |-> i]
\* asyncOut before it is assigned.
NoWriter == [writer |-> "undefined", owner |-> 0]

\* Values handed to renderBody(err, data, renderTimeout).
ProviderData == [data |-> "provider"]
ReturnedData == [data |-> "returned"]
CallbackData == [data |-> "callback"]
ResolvedData == [data |-> "resolved"]
NoData == [data |-> Null]
ProviderError == [error |-> "provider", name |-> Null, ms |-> 0]
\* new Error('Async fragment (' + name + ') timed out after ' + timeout + 'ms')
TimeoutMessage(name, timeout) == [error |-> "timed out", name |-> name, ms |-> timeout[1]]
NoError == [error |-> Null, name |-> Null, ms |-> 0]

\* ------------------------------------------------------------------ inputs
\* What a promise offers besides then(): catch(), else fail(), else neither;
\* and whether it has done(), which matters when nothing handles a rejection.
PromiseShapes ==
    {[handler |-> "catch", done |-> FALSE], [handler |-> "fail", done |-> TRUE],
     [handler |-> "none", done |-> FALSE], [handler |-> "none", done |-> TRUE]}
NoShape == [handler |-> Null, done |-> FALSE]
\* The promises a function provider returns: with catch(), or with then() only.
ReturnedShapes == {p \in PromiseShapes : ~p.done}

RECURSIVE SeqsUpTo(_, _)
SeqsUpTo(S, n) ==
    IF n = 0 THEN {<<>>}
    ELSE LET shorter == SeqsUpTo(S, n - 1)
         IN shorter \cup {Append(s, x) : s \in {t \in shorter : Len(t) = n - 1}, x \in S}

\* The provider after input.method has been bound.  A function provider is
\* described by what it does before it returns: the callback calls it makes
\* (each with an error or with data), and how it ends.
ObjectProviders == {[kind |-> "object", length |-> 0, sync |-> <<>>, result |-> Null, shape |-> NoShape]}
PromiseProviders ==
    {[kind |-> "promise", length |-> 0, sync |-> <<>>, result |-> Null, shape |-> s] : s \in PromiseShapes}
FunctionProviders ==
    {[kind |-> "function", length |-> l, sync |-> s, result |-> r, shape |-> NoShape] :
        l \in {1, 2}, s \in SeqsUpTo({"err", "data"}, MaxCalls), r \in {"throw", "undefined", "value"}}
    \cup
    {[kind |-> "function", length |-> l, sync |-> s, result |-> "promise", shape |-> p] :
        l \in {1, 2}, s \in SeqsUpTo({"err", "data"}, MaxCalls), p \in ReturnedShapes}
Providers == ObjectProviders \cup PromiseProviders \cup FunctionProviders

\* input.timeout: absent, disabled (<= 0) or a positive number of ms.
Timeouts == {Absent, <<0>>, <<5000>>}
\* input.name and input._name.
Names == {[name |-> "n", _name |-> Null], [name |-> Null, _name |-> "_n"]}

\* renderPlaceholder and showAfter are read only in the client-reorder branch.
Inputs ==
    {[dataProvider |-> p, renderBody |-> rb, renderError |-> re, renderTimeout |-> rt,
      renderPlaceholder |-> FALSE, timeout |-> t, clientReorder |-> FALSE, showAfter |-> Null,
      name |-> n.name, _name |-> n._name] :
        p \in Providers, rb \in BOOLEAN, re \in BOOLEAN, rt \in BOOLEAN, t \in Timeouts, n \in Names}
    \cup
    {[dataProvider |-> p, renderBody |-> rb, renderError |-> re, renderTimeout |-> rt,
      renderPlaceholder |-> rp, timeout |-> t, clientReorder |-> TRUE, showAfter |-> sa,
      name |-> n.name, _name |-> n._name] :
        p \in Providers, rb \in BOOLEAN, re \in BOOLEAN, rt \in BOOLEAN, rp \in BOOLEAN,
        t \in Timeouts, sa \in {Null, "n"}, n \in Names}

\* Events emitted on a writer, and the arguments that follow the event name.
Events == {"finish", "error", "asyncFragmentBegin", "asyncFragmentFinish"}
EventArgs == {<<"a1">>, <<"a1", "a2">>}

\* ------------------------------------------------------------------- state
VARIABLES
    isClientReorderSupported,  \* require('./client-reorder').isSupported
    inv,                       \* inv[i]: the closure of the i-th render() call
    asyncFragments             \* out.global.__asyncFragments

vars == <<isClientReorderSupported, inv, asyncFragments>>

\* a || b on names.
Or(a, b) == IF a # Null THEN a ELSE b

\* fragmentInfo.id: input.name, or a number taken from nextId.
NoId == [name |-> Null, number |-> -1]
NameId(name) == [name |-> name, number |-> -1]
NumberId(n) == [name |-> Null, number |-> n]
\* fragmentInfo.asyncValue: the AsyncValue of invocation i.
NoAsyncValue == [owner |-> 0]
AsyncValue(i) == [owner |-> i]

\* out.global.__asyncFragments: undefined, or {fragments, nextId}, whose
\* fragments array holds fragmentInfo objects (named by their invocation)
\* and may have been deleted.
NoContext == [defined |-> FALSE, hasFragments |-> FALSE, fragments |-> <<>>, nextId |-> 0]
NewContext == [defined |-> TRUE, hasFragments |-> TRUE, fragments |-> <<>>, nextId |-> 0]

\* The closure of a render() call that has not been made yet.  `input` keeps
\* the two fields renderBody() reads and input.timeout once the `if (!done)`
\* block has read it; length is provider.length of a function provider;
\* timeout, renderTimeout and renderPlaceholder are the locals of that block.
Idle(i) ==
    [self |-> i, pc |-> "idle",
     input |-> [renderBody |-> FALSE, renderError |-> FALSE, timeout |-> Absent],
     dataProvider |-> Null, length |-> 0, name |-> Null, clientReorder |-> FALSE,
     done |-> FALSE, timeoutId |-> 0, asyncOut |-> NoWriter,
     beginEmitted |-> FALSE, beforeRenderEmitted |-> FALSE,
     fragmentInfo |-> [name |-> Null, clientReorder |-> FALSE, out |-> NoWriter, id |-> NoId,
                       asyncValue |-> NoAsyncValue, after |-> Null],
     timeout |-> Absent, renderTimeout |-> FALSE,
     calls |-> 0, promise |-> Null, shape |-> NoShape, ops |-> <<>>]

\* --------------------------------------------------------------- operations
\* The operations the code performs, as they are recorded in ops.
Emit(event, i) == [op |-> "emit", on |-> Out, event |-> event, fragmentInfo |-> i]
Flush == [op |-> "flush", on |-> Out]
BeginAsync(name) == [op |-> "beginAsync", on |-> Out, timeout |-> WriterTimeout, name |-> name]
Create == [op |-> "asyncWriter.create", global |-> "out.global"]
Write(html, id) == [op |-> "write", on |-> Out, html |-> html, id |-> id]
Placeholder == [op |-> "renderPlaceholder", on |-> Out]
End(w) == [op |-> "end", on |-> w]
RenderBodyEntry == [op |-> "renderBody()"]
InputRenderBody(w, data) == [op |-> "input.renderBody", on |-> w, data |-> data]
InputRenderError(w) == [op |-> "input.renderError", on |-> w]
RenderTimeout(w) == [op |-> "renderTimeout", on |-> w]
WriterError(w, err) == [op |-> "error", on |-> w, err |-> err]
ConsoleError(err) == [op |-> "console.error", err |-> err]
LoggerError(message) == [op |-> "logger.error", err |-> message]
SetTimeout(ms) == [op |-> "setTimeout", ms |-> ms]
ClearTimeout == [op |-> "clearTimeout"]
CallProvider(args, out) == [op |-> "provider.call", args |-> args, out |-> out]
Then(shape) == [op |-> "promise.then", handler |-> shape.handler, done |-> shape.done]
\* asyncOut.emit(event, ...args) of the client-reorder writer, and what it does.
AsyncOutEmitCall(event, args) == [op |-> "asyncOut.emit", event |-> event, args |-> args]
OutEmitApply(event, args) == [op |-> "out.emit.apply", on |-> Out, event |-> event, args |-> args]
OldEmitApply(w, event, args) == [op |-> "oldEmit.apply", on |-> w, event |-> event, args |-> args]
AsyncValueResolve(w) == [op |-> "asyncValue.resolve", output |-> w]
AsyncValueReject(err) == [op |-> "asyncValue.reject", reason |-> err]
\* asyncFragmentContext.fragments.push(fragmentInfo), with the fields
\* fragmentInfo has at that moment.
Push(fragmentInfo) == [op |-> "fragments.push", info |-> fragmentInfo]
\* render() ends: it returns, or an exception leaves it.
Return == [op |-> "return"]
Throw == [op |-> "throw"]
Uncaught == [op |-> "uncaught"]

Do(c, o) == [c EXCEPT !.ops = Append(@, o)]

\* ---------------------------------------------------------------- renderBody
\* Mutant of ClearTimer: done is set and the timer is left pending.
ClearTimerKeeps(c) == [c EXCEPT !.done = TRUE]

\* if (timeoutId) { clearTimeout(timeoutId); timeoutId = null; }  done = true;
ClearTimer(c) ==
    LET c1 == IF c.timeoutId # 0
              THEN [Do(c, ClearTimeout) EXCEPT !.timeoutId = 0]
              ELSE c
    IN [c1 EXCEPT !.done = TRUE]

\* var targetOut = fragmentInfo.out = asyncOut || out;
TargetOut(c) == IF c.asyncOut # NoWriter THEN c.asyncOut ELSE Out

\* The begin and before-render events, each behind its flag.
EmitBegin(c) ==
    IF ~c.beginEmitted
    THEN [Do(c, Emit("asyncFragmentBegin", c.self)) EXCEPT !.beginEmitted = TRUE]
    ELSE c

EmitBeforeRender(c) ==
    IF ~c.beforeRenderEmitted
    THEN [Do(c, Emit("asyncFragmentBeforeRender", c.self)) EXCEPT !.beforeRenderEmitted = TRUE]
    ELSE c

\* Mutant of RenderContent: an error asks the provider again.
RenderContentRetry(c, err, data, renderTimeout) ==
    IF err # NoError
    THEN Do(Do(c, WriterError(TargetOut(c), err)), CallProvider(<<"arg", "callback">>, Out))
    ELSE IF renderTimeout
         THEN Do(c, RenderTimeout(TargetOut(c)))
         ELSE IF c.input.renderBody
              THEN Do(c, InputRenderBody(TargetOut(c), data))
              ELSE c

\* if (err) ... else if (renderTimeout) ... else if (input.renderBody) ...
RenderContent(c, err, data, renderTimeout) ==
    IF err # NoError
    THEN IF c.input.renderError
         THEN Do(Do(c, ConsoleError(err)), InputRenderError(TargetOut(c)))
         ELSE Do(c, WriterError(TargetOut(c), err))
    ELSE IF renderTimeout
         THEN Do(c, RenderTimeout(TargetOut(c)))
         ELSE IF c.input.renderBody
              THEN Do(c, InputRenderBody(TargetOut(c), data))
              ELSE c

\* Mutant of EmitFinish: the finish event without the clientReorder test.
EmitFinishAlways(c) == Do(c, Emit("asyncFragmentFinish", c.self))

\* if (!clientReorder) out.emit('asyncFragmentFinish', fragmentInfo);
EmitFinish(c) ==
    IF ~c.clientReorder THEN Do(c, Emit("asyncFragmentFinish", c.self)) ELSE c

\* Mutant of EndAsyncOut: the main output flushed before asyncOut.end().
EndAsyncOutFlushFirst(c) ==
    IF c.asyncOut # NoWriter
    THEN LET c1 == IF ~c.clientReorder THEN Do(c, Flush) ELSE c
         IN Do(c1, End(c.asyncOut))
    ELSE c

\* Mutant of EndAsyncOut: the main output flushed with client reordering too.
EndAsyncOutAlwaysFlush(c) ==
    IF c.asyncOut # NoWriter THEN Do(Do(c, End(c.asyncOut)), Flush) ELSE c

\* if (asyncOut) { asyncOut.end(); if (!clientReorder) out.flush(); }
EndAsyncOut(c) ==
    IF c.asyncOut # NoWriter
    THEN LET c1 == Do(c, End(c.asyncOut))
         IN IF ~c.clientReorder THEN Do(c1, Flush) ELSE c1
    ELSE c

renderBody(c, err, data, renderTimeout) ==
    LET c1 == ClearTimer(Do(c, RenderBodyEntry))
        c2 == [c1 EXCEPT !.fragmentInfo.out = TargetOut(c1)]
        c3 == EmitBeforeRender(EmitBegin(c2))
        c4 == RenderContent(c3, err, data, renderTimeout)
    IN EndAsyncOut(EmitFinish(c4))

\* -------------------------------------------------------------- requestData
\* promise.then(...) and, when the promise has one, .catch(...) or
\* .fail(...); the promise settles in a later job.
promiseToCallback(c, shape) ==
    [Do(c, Then(shape)) EXCEPT !.promise = "pending", !.shape = shape]

\* The callback calls a function provider makes before it returns.
RECURSIVE SyncCalls(_, _)
SyncCalls(c, calls) ==
    IF calls = <<>> THEN c
    ELSE LET c1 == [c EXCEPT !.calls = @ + 1]
             c2 == IF Head(calls) = "err"
                   THEN renderBody(c1, ProviderError, NoData, FALSE)
                   ELSE renderBody(c1, NoError, CallbackData, FALSE)
         IN SyncCalls(c2, Tail(calls))

\* provider.call(thisObj, callback) or provider.call(thisObj, args, callback)
ProviderArgs(provider) ==
    IF provider.length = 1 THEN <<"callback">> ELSE <<"arg", "callback">>
\* arg.out = out, when arg is passed.
ArgOut(provider) == IF provider.length = 1 THEN NoWriter ELSE Out

requestData(c, provider) ==
    IF provider.kind = "promise"
    THEN promiseToCallback(c, provider.shape)
    ELSE IF provider.kind = "function"
    THEN LET c0 == [c EXCEPT !.length = provider.length]
             c1 == SyncCalls(Do(c0, CallProvider(ProviderArgs(provider), ArgOut(provider))),
                             provider.sync)
         IN CASE provider.result = "throw" -> [Do(c1, Throw) EXCEPT !.pc = "threw"]
              [] provider.result = "undefined" -> c1
              [] provider.result = "promise" -> promiseToCallback(c1, provider.shape)
              [] OTHER -> renderBody(c1, NoError, ReturnedData, FALSE)
    ELSE renderBody(c, NoError, ProviderData, FALSE)

\* ------------------------------------------------------------------- render
\* Mutant of EffectiveTimeout: only a negative timeout disables the timer.
EffectiveTimeoutStrict(timeout) ==
    IF timeout = Absent THEN <<DefaultTimeout>>
    ELSE IF timeout[1] < 0 THEN Absent ELSE timeout

\* timeout == null -> 10000; timeout <= 0 -> null (no timer).
EffectiveTimeout(timeout) ==
    IF timeout = Absent THEN <<DefaultTimeout>>
    ELSE IF timeout[1] <= 0 THEN Absent ELSE timeout

\* Mutant of ArmTimer: the timeout is computed and no timer is set.
ArmTimerNever(c, in) ==
    [c EXCEPT !.input.timeout = in.timeout,
              !.timeout = EffectiveTimeout(in.timeout), !.renderTimeout = in.renderTimeout]

\* var timeout = input.timeout; ...
\* if (timeout != null) timeoutId = setTimeout(..., timeout);
ArmTimer(c, in) ==
    LET timeout == EffectiveTimeout(in.timeout)
        c1 == [c EXCEPT !.input.timeout = in.timeout,
                        !.timeout = timeout, !.renderTimeout = in.renderTimeout]
    IN IF timeout # Absent
       THEN [Do(c1, SetTimeout(timeout[1])) EXCEPT !.timeoutId = c.self]
       ELSE c1

\* out.global.__asyncFragments || (out.global.__asyncFragments = {fragments: [], nextId: 0})
FragmentContext(ctx) ==
    IF ctx.defined THEN ctx ELSE NewContext

\* var id = fragmentInfo.id = input.name || (asyncFragmentContext.nextId++);
FragmentId(in, ctx) == IF in.name # Null THEN NameId(in.name) ELSE NumberId(ctx.nextId)
\* Mutant of TakeId: a named fragment consumes a counter value too.
TakeIdAlways(in, ctx) == [ctx EXCEPT !.nextId = @ + 1]
TakeId(in, ctx) == IF in.name # Null THEN ctx ELSE [ctx EXCEPT !.nextId = @ + 1]

\* The placeholder written to the main output.
WritePlaceholder(c, in, id) ==
    IF in.renderPlaceholder
    THEN Do(Do(Do(c, Write("<span id=afph>", id)), Placeholder), Write("</span>", id))
    ELSE Do(c, Write("<noscript id=afph></noscript>", id))

\* if (asyncFragmentContext.fragments) asyncFragmentContext.fragments.push(fragmentInfo);
Register(c, ctx) ==
    IF ctx.hasFragments THEN [ctx EXCEPT !.fragments = Append(@, c.self)] ELSE ctx

\* Mutant of ClientReorder: the fragment is registered as soon as it has its
\* id, before the writer is created and showAfter is copied.
ClientReorderRegistersEarly(c, in, ctx) ==
    LET ctx1 == FragmentContext(ctx)
        id == FragmentId(in, ctx1)
        ctx2 == TakeId(in, ctx1)
        c1 == WritePlaceholder([c EXCEPT !.fragmentInfo.id = id], in, id)
        c2 == IF ctx2.hasFragments THEN Do(c1, Push(c1.fragmentInfo)) ELSE c1
        c3 == [Do(c2, Create) EXCEPT
                 !.fragmentInfo.asyncValue = AsyncValue(c.self),
                 !.asyncOut = BufferWriter(c.self),
                 !.fragmentInfo.out = BufferWriter(c.self),
                 !.fragmentInfo.after = in.showAfter]
    IN [c |-> c3, ctx |-> Register(c3, ctx2)]

\* The client-reorder branch: the closure and out.global.__asyncFragments.
ClientReorder(c, in, ctx) ==
    LET ctx1 == FragmentContext(ctx)
        id == FragmentId(in, ctx1)
        ctx2 == TakeId(in, ctx1)
        c1 == WritePlaceholder([c EXCEPT !.fragmentInfo.id = id], in, id)
        c2 == [Do(c1, Create) EXCEPT
                 !.fragmentInfo.asyncValue = AsyncValue(c.self),
                 !.asyncOut = BufferWriter(c.self),
                 !.fragmentInfo.out = BufferWriter(c.self),
                 !.fragmentInfo.after = in.showAfter]
        c3 == IF ctx2.hasFragments THEN Do(c2, Push(c2.fragmentInfo)) ELSE c2
    IN [c |-> c3, ctx |-> Register(c3, ctx2)]

\* .on('finish', ...) and .on('error', ...): the listeners oldEmit reaches.
Listeners(c, event, args) ==
    CASE event = "finish" -> Do(c, AsyncValueResolve(c.asyncOut))
      [] event = "error" -> Do(c, AsyncValueReject(Head(args)))
      [] OTHER -> c

\* Mutant of AsyncOutEmit: every event is passed to the main output.
AsyncOutEmitProxyAll(c, event, args) ==
    LET c1 == Do(Do(c, AsyncOutEmitCall(event, args)), OutEmitApply(event, args))
    IN Listeners(Do(c1, OldEmitApply(c.asyncOut, event, args)), event, args)

\* asyncOut.emit = function(event) { if (event !== 'finish' && event !== 'error')
\* out.emit.apply(out, arguments); oldEmit.apply(asyncOut, arguments); }
AsyncOutEmit(c, event, args) ==
    LET c0 == Do(c, AsyncOutEmitCall(event, args))
        c1 == IF event # "finish" /\ event # "error"
              THEN Do(c0, OutEmitApply(event, args)) ELSE c0
    IN Listeners(Do(c1, OldEmitApply(c.asyncOut, event, args)), event, args)

\* out.flush(); asyncOut = fragmentInfo.out = out.beginAsync({timeout: 0, name: name});
BeginNested(c) ==
    [Do(Do(c, Flush), BeginAsync(c.name)) EXCEPT
        !.asyncOut = NestedWriter(c.self), !.fragmentInfo.out = NestedWriter(c.self)]

\* Mutant of Pending: the fragment without client reordering takes an id too.
PendingTakesId(c, in, ctx) ==
    LET c1 == ArmTimer(c, in)
    IN IF c1.clientReorder
       THEN ClientReorder(c1, in, ctx)
       ELSE [c |-> BeginNested(c1), ctx |-> TakeId(in, FragmentContext(ctx))]

\* The `if (!done)` block.
Pending(c, in, ctx) ==
    LET c1 == ArmTimer(c, in)
    IN IF c1.clientReorder
       THEN ClientReorder(c1, in, ctx)
       ELSE [c |-> BeginNested(c1), ctx |-> ctx]

\* The closure at the start of render(input, out).
Enter(i, in, supported) ==
    LET clientReorder == supported /\ in.clientReorder
        name == Or(in.name, in._name)
    IN [Idle(i) EXCEPT
          !.pc = "running",
          !.input.renderBody = in.renderBody, !.input.renderError = in.renderError,
          !.dataProvider = in.dataProvider.kind,
          !.name = name, !.clientReorder = clientReorder,
          !.fragmentInfo.name = name, !.fragmentInfo.clientReorder = clientReorder]

\* Mutant of RenderCall: the `if (!done)` block runs whether done or not.
RenderCallIgnoringDone(i, in, supported, ctx) ==
    LET c1 == requestData(Enter(i, in, supported), in.dataProvider)
    IN IF c1.pc = "threw"
       THEN [c |-> c1, ctx |-> ctx]
       ELSE LET r == Pending(c1, in, ctx)
            IN [c |-> [Do(EmitBegin(r.c), Return) EXCEPT !.pc = "returned"], ctx |-> r.ctx]

\* render(input, out) up to its return, or up to the exception that leaves it.
RenderCall(i, in, supported, ctx) ==
    LET c1 == requestData(Enter(i, in, supported), in.dataProvider)
    IN IF c1.pc = "threw"
       THEN [c |-> c1, ctx |-> ctx]
       ELSE LET r == IF ~c1.done THEN Pending(c1, in, ctx) ELSE [c |-> c1, ctx |-> ctx]
            IN [c |-> [Do(EmitBegin(r.c), Return) EXCEPT !.pc = "returned"], ctx |-> r.ctx]

\* ------------------------------------------------------------------ actions
\* The i-th render() call on the page, with an input of the set `inputs`.
render(i, inputs) ==
    /\ inv[i].pc = "idle"
    /\ \A j \in Frags : j < i => inv[j].pc # "idle"
    /\ \E in \in inputs :
          LET r == RenderCall(i, in, isClientReorderSupported, asyncFragments)
          IN /\ inv' = [inv EXCEPT ![i] = r.c]
             /\ asyncFragments' = r.ctx
    /\ UNCHANGED isClientReorderSupported

\* A function provider calls the callback after it has returned (or thrown).
CallbackLater(i) ==
    /\ inv[i].pc \in {"returned", "threw"}
    /\ inv[i].dataProvider = "function"
    /\ inv[i].calls < MaxCalls
    /\ \E r \in {"err", "data"} :
          inv' = [inv EXCEPT ![i] = SyncCalls(@, <<r>>)]
    /\ UNCHANGED <<isClientReorderSupported, asyncFragments>>

\* The promise is fulfilled: function(data) { callback(null, data); }
PromiseResolve(i) ==
    /\ inv[i].promise = "pending"
    /\ inv' = [inv EXCEPT ![i] =
                 renderBody([@ EXCEPT !.promise = "fulfilled"], NoError, ResolvedData, FALSE)]
    /\ UNCHANGED <<isClientReorderSupported, asyncFragments>>

\* The promise is rejected: function(err) { callback(err); } when catch() or
\* fail() attached it; else done(), when there is one, rethrows the error.
Rejected(c) ==
    LET c1 == [c EXCEPT !.promise = "rejected"]
    IN IF c.shape.handler \in {"catch", "fail"}
       THEN renderBody(c1, ProviderError, NoData, FALSE)
       ELSE IF c.shape.done THEN Do(c1, Uncaught) ELSE c1

PromiseReject(i) ==
    /\ inv[i].promise = "pending"
    /\ inv' = [inv EXCEPT ![i] = Rejected(@)]
    /\ UNCHANGED <<isClientReorderSupported, asyncFragments>>

\* Mutant of TimedOut: the timeout is an error even with renderTimeout.
TimedOutAsError(c) == renderBody(c, TimeoutMessage(c.name, c.timeout), NoData, FALSE)

\* The function given to setTimeout runs.
TimedOut(c) ==
    LET message == TimeoutMessage(c.name, c.timeout)
    IN IF c.renderTimeout
       THEN renderBody(Do(c, LoggerError(message)), NoError, NoData, TRUE)
       ELSE renderBody(c, message, NoData, FALSE)

Timeout(i) ==
    /\ inv[i].timeoutId # 0
    /\ inv' = [inv EXCEPT ![i] = TimedOut(@)]
    /\ UNCHANGED <<isClientReorderSupported, asyncFragments>>

\* Something (the writer itself, content rendered into it) emits an event on
\* the separate writer of a client-reorder fragment.
IsEmitCall(o) == o.op = "asyncOut.emit"
asyncOutEmit(i) ==
    /\ inv[i].asyncOut = BufferWriter(i)
    /\ Cardinality({k \in 1..Len(inv[i].ops) : IsEmitCall(inv[i].ops[k])}) < MaxEmits
    /\ \E event \in Events, args \in EventArgs :
          inv' = [inv EXCEPT ![i] = AsyncOutEmit(@, event, args)]
    /\ UNCHANGED <<isClientReorderSupported, asyncFragments>>

Init ==
    /\ isClientReorderSupported \in BOOLEAN
    /\ inv = [i \in Frags |-> Idle(i)]
    /\ asyncFragments = NoContext

\* One render() call, with a provider, callbacks and options of every shape.
Next ==
    \/ render(1, Inputs)
    \/ \E i \in Frags : CallbackLater(i)
    \/ \E i \in Frags : PromiseResolve(i)
    \/ \E i \in Frags : PromiseReject(i)
    \/ \E i \in Frags : Timeout(i)

Spec == Init /\ [][Next]_vars

\* One render() call whose provider is pending when requestData returns: a
\* promise, or a function that returns undefined or a promise without having
\* called the callback; the template supplies renderBody and a name, and no
\* placeholder.  The timer of setTimeout fires unless clearTimeout has
\* cancelled it.
PendingProviders ==
    {p \in Providers :
        \/ p.kind = "promise"
        \/ p.kind = "function" /\ p.sync = <<>> /\ p.result \in {"undefined", "promise"}}
PendingTimeouts == Timeouts \cup {<<-1>>}
PendingInputs ==
    {[dataProvider |-> p, renderBody |-> TRUE, renderError |-> re, renderTimeout |-> rt,
      renderPlaceholder |-> FALSE, timeout |-> t, clientReorder |-> cr, showAfter |-> Null,
      name |-> "n", _name |-> Null] :
        p \in PendingProviders, re \in BOOLEAN, rt \in BOOLEAN, t \in PendingTimeouts,
        cr \in BOOLEAN}

PendingNext ==
    \/ render(1, PendingInputs)
    \/ \E i \in Frags : CallbackLater(i)
    \/ \E i \in Frags : PromiseResolve(i)
    \/ \E i \in Frags : PromiseReject(i)
    \/ \E i \in Frags : Timeout(i)

FairSpec == Init /\ [][PendingNext]_vars /\ \A i \in Frags : WF_vars(Timeout(i))

\* A page: NFrags render() calls on one `out`, each with a plain object or a
\* promise for a provider and the default timeout; the fragments that have a
\* placeholder are the ones with showAfter.
PageProviders ==
    {p \in Providers : p.kind = "object" \/ (p.kind = "promise" /\ p.shape.handler = "catch")}
PageInputs ==
    {[dataProvider |-> p, renderBody |-> TRUE, renderError |-> FALSE, renderTimeout |-> FALSE,
      renderPlaceholder |-> rp, timeout |-> Absent, clientReorder |-> cr,
      showAfter |-> IF rp THEN "n" ELSE Null, name |-> n.name, _name |-> n._name] :
        p \in PageProviders, rp \in BOOLEAN, cr \in BOOLEAN, n \in Names}

PageNext ==
    \/ \E i \in Frags : render(i, PageInputs)
    \/ \E i \in Frags : PromiseResolve(i)
    \/ \E i \in Frags : PromiseReject(i)
    \/ \E i \in Frags : Timeout(i)

SpecPage == Init /\ [][PageNext]_vars

\* One render() call with client reordering asked for and a promise for a
\* provider, and the events emitted on its separate writer.
ProxyInputs ==
    {in \in PageInputs : in.clientReorder /\ in.dataProvider.kind = "promise" /\ in.name # Null}

ProxyNext ==
    \/ render(1, ProxyInputs)
    \/ \E i \in Frags : asyncOutEmit(i)
    \/ \E i \in Frags : PromiseResolve(i)
    \/ \E i \in Frags : PromiseReject(i)
    \/ \E i \in Frags : Timeout(i)

SpecProxy == Init /\ [][ProxyNext]_vars

\* ------------------------------------------------------- reading the record
\* The positions of ops whose operation satisfies Test(_).
Positions(ops, Test(_)) == {k \in 1..Len(ops) : Test(ops[k])}
Count(ops, Test(_)) == Cardinality(Positions(ops, Test))
Has(ops, o) == \E k \in 1..Len(ops) : ops[k] = o

IsRun(o) == o = RenderBodyEntry
IsEvent(o, event) == o.op = "emit" /\ o.event = event
IsBegin(o) == IsEvent(o, "asyncFragmentBegin")
IsBeforeRender(o) == IsEvent(o, "asyncFragmentBeforeRender")
IsFinish(o) == IsEvent(o, "asyncFragmentFinish")
\* input.renderBody, input.renderError, renderTimeout or targetOut.error.
IsContent(o) == o.op \in {"input.renderBody", "input.renderError", "renderTimeout", "error"}
IsErrorSink(o) == o.op \in {"input.renderError", "error"}
IsExit(o) == o \in {Return, Throw}

\* The runs of renderBody() so far, and the run position k of ops belongs to.
Runs(c) == Count(c.ops, IsRun)
RunOf(ops, k) == Cardinality({r \in Positions(ops, IsRun) : r <= k})
\* What the step from closure c to closure d added to ops.
Added(c, d) == SubSeq(d.ops, Len(c.ops) + 1, Len(d.ops))
\* render() has ended, and renderBody() ran before it did.
Ended(c) == c.pc \in {"returned", "threw"}
CompletedSynchronously(c) ==
    /\ Ended(c)
    /\ \E k \in Positions(c.ops, IsRun) : \A e \in Positions(c.ops, IsExit) : k < e
\* render() returned with the provider still pending.
ReturnedPending(c) ==
    /\ c.pc = "returned"
    /\ \A k \in Positions(c.ops, IsRun) : \E e \in Positions(c.ops, IsExit) : e < k

\* ------------------------------------------------------------------ claims
\* C1: in one render() invocation renderBody runs at most once, whatever
\* the provider does and whenever the timer fires; a second delivery is
\* ignored.
C1_RenderBodyAtMostOnce == \A i \in Frags : Runs(inv[i]) <= 1

\* C2: a provider that is pending when requestData returns, with a timeout
\* that is not disabled, leads to a run of renderBody, and the writer opened
\* for the fragment is ended.
C2_Precondition(c) == c.pc = "returned" /\ c.timeout # Absent /\ c.asyncOut # NoWriter
C2_Resolved(c) == Runs(c) >= 1 /\ Has(c.ops, End(c.asyncOut))
C2_TimeoutFallback ==
    \A i \in Frags : C2_Precondition(inv[i]) ~> C2_Resolved(inv[i])
\* The timer fired for a provider that never answered, and the writer ended.
C2_Witness ==
    \E i \in Frags :
        /\ C2_Precondition(inv[i]) /\ C2_Resolved(inv[i])
        /\ inv[i].calls = 0 /\ inv[i].promise \in {Null, "pending"}

\* C3: in every execution of render() asyncFragmentBegin is emitted exactly
\* once, asyncFragmentBeforeRender at most once, begin before before-render,
\* and before-render before the first content rendering.
C3_Order(c) ==
    /\ Count(c.ops, IsBegin) = 1
    /\ Count(c.ops, IsBeforeRender) <= 1
    /\ \A b \in Positions(c.ops, IsBegin) : \A r \in Positions(c.ops, IsBeforeRender) : b < r
    /\ \A x \in Positions(c.ops, IsContent) : \E r \in Positions(c.ops, IsBeforeRender) : r < x
C3_BeginBeforeRenderOrder == \A i \in Frags : Ended(inv[i]) => C3_Order(inv[i])
\* The same, for the executions of render() that return.
C3_WhenReturned == \A i \in Frags : inv[i].pc = "returned" => C3_Order(inv[i])

\* C4: every render() whose data resolves emits asyncFragmentFinish on the
\* main output exactly once, with the fragmentInfo of the begin event, after
\* the content, with or without client reordering.
C4_FinishExactlyOnce ==
    \A i \in Frags :
        Runs(inv[i]) >= 1 =>
            /\ Count(inv[i].ops, IsFinish) = 1
            /\ \A f \in Positions(inv[i].ops, IsFinish) :
                  /\ inv[i].ops[f].fragmentInfo = i
                  /\ \A x \in Positions(inv[i].ops, IsContent) : x < f
\* C4, amended: without client reordering every run of renderBody emits
\* asyncFragmentFinish once, with the fragmentInfo of the begin event, after
\* the content of that run; with client reordering render() emits none.
C4_FinishPerRun ==
    \A i \in Frags :
        LET ops == inv[i].ops
        IN IF inv[i].clientReorder
           THEN Count(ops, IsFinish) = 0
           ELSE /\ \A r \in 1..Runs(inv[i]) :
                      \E f \in Positions(ops, IsFinish) :
                          /\ RunOf(ops, f) = r
                          /\ \A g \in Positions(ops, IsFinish) : RunOf(ops, g) = r => g = f
                          /\ \A x \in Positions(ops, IsContent) : RunOf(ops, x) = r => x < f
                /\ \A f \in Positions(ops, IsFinish) :
                      /\ RunOf(ops, f) >= 1
                      /\ ops[f].fragmentInfo = i
                      /\ \A b \in Positions(ops, IsBegin) : ops[b].fragmentInfo = ops[f].fragmentInfo
\* A fragment rendered into its nested writer, finished once.
C4_Witness ==
    \E i \in Frags :
        /\ ~inv[i].clientReorder /\ ReturnedPending(inv[i]) /\ Runs(inv[i]) = 1
        /\ Count(inv[i].ops, IsContent) = 1 /\ Count(inv[i].ops, IsFinish) = 1

\* C5: every error of the provider (thrown, rejected, or passed to the
\* callback) reaches exactly one sink, input.renderError or targetOut.error,
\* without input.renderBody or renderTimeout; none leaves render() as an
\* exception and none is lost.
C5_ErrorsFunneled ==
    \A i \in Frags :
        LET ops == inv[i].ops
        IN /\ ~Has(ops, Throw)
           /\ ~Has(ops, Uncaught)
           /\ inv[i].promise = "rejected" => Count(ops, IsErrorSink) >= 1
           /\ \A e \in Positions(ops, IsErrorSink) :
                 \A x \in Positions(ops, IsContent) : RunOf(ops, x) = RunOf(ops, e) => x = e

\* C6: when the timer fires, renderTimeout(targetOut) is called and nothing
\* else if input.renderTimeout is supplied; otherwise the timeout error,
\* naming the fragment and the timeout, goes to input.renderError if
\* supplied, else to targetOut.error.
C6_Step(c, d) ==
    LET new == Added(c, d)
        targetOut == TargetOut(c)
        message == TimeoutMessage(c.name, c.timeout)
    IN /\ Count(new, IsContent) = 1
       /\ IF c.renderTimeout
          THEN Has(new, RenderTimeout(targetOut))
          ELSE IF c.input.renderError
               THEN Has(new, ConsoleError(message)) /\ Has(new, InputRenderError(targetOut))
               ELSE Has(new, WriterError(targetOut, message))
C6_TimeoutSinks == [][\A i \in Frags : Timeout(i) => C6_Step(inv[i], inv'[i])]_vars
\* The timer of a pending fragment has fired, with or without renderTimeout.
C6_Witness ==
    \E i \in Frags :
        \E o \in {RenderTimeout(inv[i].asyncOut),
                  WriterError(inv[i].asyncOut, TimeoutMessage(inv[i].name, <<DefaultTimeout>>))} :
            inv[i].asyncOut # NoWriter /\ Has(inv[i].ops, o)

\* C7: the provider is requested at most once and the timer armed at most
\* once; after a run of renderBody (an error, a timeout, a result) neither
\* happens again.
IsRequest(o) == o.op = "provider.call"
IsArm(o) == o.op = "setTimeout"
C7_NoRetry ==
    \A i \in Frags :
        LET ops == inv[i].ops
        IN /\ Count(ops, IsRequest) <= 1
           /\ Count(ops, IsArm) <= 1
           /\ \A k \in Positions(ops, IsRequest) \cup Positions(ops, IsArm) : RunOf(ops, k) = 0
           /\ inv[i].done => inv[i].timeoutId = 0
\* A timeout followed by a late error of the provider.
C7_Witness ==
    \E i \in Frags :
        /\ Count(inv[i].ops, IsRequest) = 1 /\ Count(inv[i].ops, IsArm) = 1
        /\ Runs(inv[i]) = 2 /\ Count(inv[i].ops, IsErrorSink) = 2

\* C8: a render() invocation mutates no state shared with the other
\* invocations on the same output.
C8_NoSharedState == [][asyncFragments' = asyncFragments]_vars
\* C8, amended: a step changes the closure of one invocation only, and the
\* shared out.global.__asyncFragments only when it is a render() call with
\* client reordering whose provider is pending: that call appends its
\* fragmentInfo and, when the fragment has no input.name, takes nextId.
C8_Registers(i) ==
    /\ inv[i].pc = "idle" /\ ReturnedPending(inv'[i]) /\ inv'[i].clientReorder
    /\ asyncFragments'.fragments = Append(asyncFragments.fragments, i)
    /\ asyncFragments'.nextId =
          IF inv'[i].fragmentInfo.id.name # Null
          THEN asyncFragments.nextId
          ELSE asyncFragments.nextId + 1
    /\ inv'[i].fragmentInfo.id.name = Null =>
          inv'[i].fragmentInfo.id.number = asyncFragments.nextId
C8_SharedOnlyByClientReorder ==
    [][/\ \A i, j \in Frags : inv'[i] # inv[i] /\ inv'[j] # inv[j] => i = j
       /\ asyncFragments' # asyncFragments => \E i \in Frags : C8_Registers(i)]_vars
\* Two unnamed client-reorder fragments: the second took the id after the first.
C8_Witness ==
    \E i, j \in Frags :
        /\ inv[i].fragmentInfo.id = NumberId(0) /\ inv[j].fragmentInfo.id = NumberId(1)
        /\ asyncFragments.fragments = <<i, j>> /\ asyncFragments.nextId = 2

\* C9: a provider that completes inside requestData is rendered into the
\* main output, with no timer, no placeholder, no other writer, nothing
\* registered in out.global.__asyncFragments, no asyncOut.end(), no out.flush().
IsAsyncOnly(o) ==
    o.op \in {"setTimeout", "write", "renderPlaceholder", "beginAsync",
              "asyncWriter.create", "end", "flush"}
C9_SynchronousInline ==
    \A i \in Frags :
        CompletedSynchronously(inv[i]) =>
            /\ Count(inv[i].ops, IsAsyncOnly) = 0
            /\ \A x \in Positions(inv[i].ops, IsContent) : inv[i].ops[x].on = Out
            /\ inv[i].timeoutId = 0 /\ inv[i].asyncOut = NoWriter
            /\ \A k \in 1..Len(asyncFragments.fragments) : asyncFragments.fragments[k] # i
\* A function provider answered before it returned, with client reordering asked for.
C9_Witness ==
    \E i \in Frags :
        /\ CompletedSynchronously(inv[i]) /\ inv[i].pc = "returned" /\ inv[i].clientReorder
        /\ Has(inv[i].ops, InputRenderBody(Out, CallbackData))

\* C10: without client reordering and with a pending provider the main
\* output sees out.flush(), out.beginAsync({timeout: 0, name}),
\* asyncFragmentBegin; then on resolution asyncFragmentBeforeRender, the
\* content in the async writer, asyncFragmentFinish, asyncOut.end() and
\* out.flush() last.
IsOutput(o) ==
    \/ o.op \in {"emit", "flush", "beginAsync", "write", "renderPlaceholder",
                 "asyncWriter.create", "end"}
    \/ IsContent(o)
C10_Sequence(c) ==
    LET m == SelectSeq(c.ops, IsOutput)
        w == NestedWriter(c.self)
        opening == <<Flush, BeginAsync(c.name), Emit("asyncFragmentBegin", c.self)>>
        closing == <<Emit("asyncFragmentFinish", c.self), End(w), Flush>>
        content == IF Len(m) >= 5 /\ IsContent(m[5]) THEN <<m[5]>> ELSE <<>>
        resolution == <<Emit("asyncFragmentBeforeRender", c.self)>> \o content \o closing
    IN /\ Len(m) >= 3 /\ SubSeq(m, 1, 3) = opening
       /\ m[2].timeout = 0
       /\ c.asyncOut = w
       /\ \A x \in 1..Len(m) : IsContent(m[x]) => m[x].on = w
       /\ Runs(c) = 0 => Len(m) = 3
       /\ Runs(c) >= 1 =>
             /\ Len(m) >= 3 + Len(resolution)
             /\ SubSeq(m, 4, 3 + Len(resolution)) = resolution
             /\ m[Len(m)] = Flush
C10_NestedOrder ==
    \A i \in Frags : (ReturnedPending(inv[i]) /\ ~inv[i].clientReorder) => C10_Sequence(inv[i])
\* A pending fragment without client reordering, resolved once with data.
C10_Witness ==
    \E i \in Frags :
        /\ ReturnedPending(inv[i]) /\ ~inv[i].clientReorder /\ Runs(inv[i]) = 1
        /\ Has(inv[i].ops, InputRenderBody(NestedWriter(i), ResolvedData))

\* C11: with client reordering and a pending provider the main output gets
\* the placeholder only (a span around renderPlaceholder's output, or an empty
\* noscript, with the fragment's id), never out.flush() or out.beginAsync();
\* the content goes to a separate writer that shares out.global, and
\* asyncOut.end() follows the content with no flush of the main output.
IsMainWrite(o) == o.op \in {"write", "renderPlaceholder", "flush", "beginAsync"}
C11_Buffered(c) ==
    LET ops == c.ops
        w == BufferWriter(c.self)
        id == c.fragmentInfo.id
        written == SelectSeq(ops, IsMainWrite)
    IN /\ id # NoId
       /\ written \in {<<Write("<span id=afph>", id), Placeholder, Write("</span>", id)>>,
                       <<Write("<noscript id=afph></noscript>", id)>>}
       /\ c.asyncOut = w /\ Has(ops, Create) /\ Create.global = "out.global"
       /\ \A x \in Positions(ops, IsContent) : ops[x].on = w
       /\ \A r \in Positions(ops, IsRun) :
             \E e \in 1..Len(ops) :
                 /\ ops[e] = End(w) /\ RunOf(ops, e) = RunOf(ops, r)
                 /\ \A x \in Positions(ops, IsContent) : RunOf(ops, x) = RunOf(ops, r) => x < e
C11_ClientReorderPlaceholderOnly ==
    \A i \in Frags : (ReturnedPending(inv[i]) /\ inv[i].clientReorder) => C11_Buffered(inv[i])
\* A client-reorder fragment with a placeholder, resolved with data.
C11_Witness ==
    \E i \in Frags :
        /\ ReturnedPending(inv[i]) /\ inv[i].clientReorder /\ Runs(inv[i]) = 1
        /\ Has(inv[i].ops, Placeholder)
        /\ Has(inv[i].ops, InputRenderBody(BufferWriter(i), ResolvedData))
        /\ inv[i].ops[Len(inv[i].ops)] = End(BufferWriter(i))

\* C13: a data result that arrives before the timer cancels it, so that the
\* timeout handler never runs; after a run of renderBody no timer is pending;
\* a timer is armed only while done is false.
IsTimeoutLog(o) == o.op = "logger.error" /\ o.err.error = "timed out"
IsTimeoutError(o) == o.op \in {"console.error", "error"} /\ o.err.error = "timed out"
C13_TimerCancelled ==
    \A i \in Frags :
        LET ops == inv[i].ops
        IN /\ (inv[i].done \/ Runs(inv[i]) >= 1) => inv[i].timeoutId = 0
           /\ \A k \in Positions(ops, IsArm) : RunOf(ops, k) = 0
           /\ \A k \in Positions(ops, IsTimeoutLog) : RunOf(ops, k) = 0
           /\ \A k \in Positions(ops, IsTimeoutError) : RunOf(ops, k) = 1
\* The promise was fulfilled while the timer was pending: the timer was cleared.
C13_Witness ==
    \E i \in Frags :
        /\ inv[i].promise = "fulfilled" /\ Count(inv[i].ops, IsArm) = 1
        /\ Has(inv[i].ops, ClearTimeout) /\ inv[i].timeoutId = 0
        /\ Count(inv[i].ops, IsTimeoutLog) + Count(inv[i].ops, IsTimeoutError) = 0

\* C12: an event emitted on the separate writer of a client-reorder fragment
\* is emitted on the main output with the same arguments and then on the
\* separate writer itself, unless it is 'finish' or 'error': those two go to
\* the separate writer only and never reach the main output.
IsOnMain(o) == o.op \in {"emit", "out.emit.apply"}
IsProxied(o) == o.op = "out.emit.apply"
IsOldEmit(o) == o.op = "oldEmit.apply"
C12_Proxy(c) ==
    LET ops == c.ops
        w == BufferWriter(c.self)
    IN /\ \A k \in Positions(ops, IsEmitCall) :
             LET e == ops[k].event
                 a == ops[k].args
             IN IF e \notin {"finish", "error"}
                THEN /\ k + 2 <= Len(ops)
                     /\ ops[k + 1] = OutEmitApply(e, a)
                     /\ ops[k + 2] = OldEmitApply(w, e, a)
                ELSE /\ k + 1 <= Len(ops)
                     /\ ops[k + 1] = OldEmitApply(w, e, a)
       /\ \A k \in Positions(ops, IsOnMain) : ops[k].event \notin {"finish", "error"}
       /\ \A k \in Positions(ops, IsProxied) : k > 1 /\ IsEmitCall(ops[k - 1])
       /\ Count(ops, IsOldEmit) = Count(ops, IsEmitCall)
C12_EventsProxied == \A i \in Frags : C12_Proxy(inv[i])
\* 'finish' and another event have both been emitted on the separate writer.
C12_Witness ==
    \E i \in Frags :
        /\ \E k \in Positions(inv[i].ops, IsEmitCall) : inv[i].ops[k].event = "finish"
        /\ \E k \in Positions(inv[i].ops, IsEmitCall) :
              inv[i].ops[k].event = "asyncFragmentBegin" /\ Len(inv[i].ops[k].args) = 2

\* C14: with input.timeout absent the timer is armed at 10000 ms, with a
\* positive input.timeout at that value, and with input.timeout <= 0 no timer
\* is armed at all: renderBody then runs only on the provider's own result.
C14_Timer(c) ==
    LET t == c.input.timeout
        armed == SelectSeq(c.ops, IsArm)
    IN /\ t = Absent => armed = <<SetTimeout(10000)>>
       /\ (t # Absent /\ t[1] > 0) => armed = <<SetTimeout(t[1])>>
       /\ (t # Absent /\ t[1] <= 0) =>
             /\ armed = <<>> /\ c.timeoutId = 0
             /\ Count(c.ops, IsTimeoutLog) + Count(c.ops, IsTimeoutError) = 0
             /\ Runs(c) <= c.calls + (IF c.promise \in {"fulfilled", "rejected"} THEN 1 ELSE 0)
C14_EffectiveTimeout == \A i \in Frags : ReturnedPending(inv[i]) => C14_Timer(inv[i])
\* A negative timeout: no timer, and the fragment rendered on the promise's data.
C14_Witness ==
    \E i \in Frags :
        /\ ReturnedPending(inv[i]) /\ inv[i].input.timeout = <<-1>>
        /\ inv[i].promise = "fulfilled" /\ Runs(inv[i]) = 1
        /\ Count(inv[i].ops, IsArm) = 0

\* C15: on one out.global the pending client-reorder fragments without
\* input.name get the ids 0, 1, 2, ... from nextId in the order of their
\* render() calls, nextId is the number of such fragments rendered so far, and
\* a fragment with input.name has that name for id and leaves nextId alone.
HasInputName(c) == c.name \in {n.name : n \in Names} \ {Null}
PendingClientReorder == {i \in Frags : ReturnedPending(inv[i]) /\ inv[i].clientReorder}
Unnamed == {i \in PendingClientReorder : ~HasInputName(inv[i])}
C15_PlaceholderIds ==
    /\ asyncFragments.nextId = Cardinality(Unnamed)
    /\ \A i \in Unnamed :
          inv[i].fragmentInfo.id = NumberId(Cardinality({j \in Unnamed : j < i}))
    /\ \A i, j \in Unnamed :
          i < j => inv[i].fragmentInfo.id.number < inv[j].fragmentInfo.id.number
    /\ \A i \in PendingClientReorder \ Unnamed :
          inv[i].fragmentInfo.id = NameId(inv[i].name)
\* A named fragment, then an unnamed one: the unnamed one has the id 0.
C15_Witness ==
    \E i, j \in PendingClientReorder :
        /\ i < j /\ inv[i].fragmentInfo.id = NameId("n")
        /\ inv[j].fragmentInfo.id = NumberId(0) /\ asyncFragments.nextId = 1

\* C16: where out.global.__asyncFragments.fragments exists, the fragmentInfo
\* of every pending client-reorder fragment is appended to it exactly once, in
\* the order of the render() calls, and carries its id, asyncValue, out (the
\* separate writer) and after (input.showAfter) at that moment; the append
\* comes before the fragment's asyncFragmentBegin and before its content.
IsPush(o) == o.op = "fragments.push"
C16_Pushed(c) ==
    LET ops == c.ops
        i == c.self
        fragments == asyncFragments.fragments
    IN /\ Cardinality({k \in DOMAIN fragments : fragments[k] = i}) = 1
       /\ Count(ops, IsPush) = 1
       /\ \A k \in Positions(ops, IsPush) :
             /\ ops[k].info = c.fragmentInfo
             /\ ops[k].info.id # NoId
             /\ ops[k].info.asyncValue = AsyncValue(i)
             /\ ops[k].info.out = BufferWriter(i)
             /\ \A b \in Positions(ops, IsBegin) : k < b
             /\ \A x \in Positions(ops, IsContent) : k < x
             /\ RunOf(ops, k) = 0
C16_Registered ==
    LET fragments == asyncFragments.fragments
    IN /\ \A i \in PendingClientReorder : asyncFragments.hasFragments => C16_Pushed(inv[i])
       /\ \A k \in DOMAIN fragments : fragments[k] \in PendingClientReorder
       /\ \A k, l \in DOMAIN fragments : k < l => fragments[k] < fragments[l]
\* Two client-reorder fragments registered in render order, the second with
\* showAfter, and the first already rendered.
C16_Witness ==
    /\ Len(asyncFragments.fragments) = 2
    /\ inv[asyncFragments.fragments[2]].fragmentInfo.after = "n"
    /\ Runs(inv[asyncFragments.fragments[1]]) = 1

\* C17: requestData adapts a promise provider (resolve -> callback(null, data),
\* reject -> callback(err)) and never calls it; it calls a function provider
\* of arity 1 with the callback only and of any other arity with (arg,
\* callback), arg.out being the main output, and adapts a promise the function
\* returns; a provider that is neither is delivered synchronously as the data.
IsThen(o) == o.op = "promise.then"
IsDataResolved(o) == o.op = "input.renderBody" /\ o.data = ResolvedData
IsProviderError(o) == o.op \in {"console.error", "error"} /\ o.err = ProviderError
C17_Adapted(c) ==
    /\ Count(c.ops, IsThen) = 1
    /\ (c.promise = "fulfilled" /\ c.input.renderBody) => Count(c.ops, IsDataResolved) >= 1
    /\ c.promise = "rejected" => Count(c.ops, IsProviderError) >= 1
C17_Dispatched(c, Adapted(_)) ==
    LET ops == c.ops
    IN CASE c.dataProvider = "promise" ->
              /\ ~Has(ops, CallProvider(<<"callback">>, NoWriter))
              /\ ~Has(ops, CallProvider(<<"arg", "callback">>, Out))
              /\ ops[1].op = "promise.then" /\ Adapted(c)
         [] c.dataProvider = "function" ->
              /\ Count(ops, IsRequest) = 1
              /\ ops[1] = IF c.length = 1
                          THEN CallProvider(<<"callback">>, NoWriter)
                          ELSE CallProvider(<<"arg", "callback">>, Out)
              /\ c.promise # Null => Adapted(c)
         [] OTHER ->
              /\ CompletedSynchronously(c) /\ Count(ops, IsRequest) + Count(ops, IsThen) = 0
              /\ c.input.renderBody =>
                    \E k \in 1..Len(ops) :
                        /\ ops[k] = InputRenderBody(Out, ProviderData)
                        /\ \A e \in Positions(ops, IsExit) : k < e
C17_Dispatch ==
    \A i \in Frags : inv[i].pc # "idle" => C17_Dispatched(inv[i], C17_Adapted)
\* The same, with the rejection passed on only where the promise has catch()
\* or fail(): this holds.
C17_AdaptedWithHandler(c) ==
    /\ Count(c.ops, IsThen) = 1
    /\ (c.promise = "fulfilled" /\ c.input.renderBody) => Count(c.ops, IsDataResolved) >= 1
    /\ (c.promise = "rejected" /\ c.shape.handler \in {"catch", "fail"}) =>
          Count(c.ops, IsProviderError) >= 1
C17_DispatchWithHandler ==
    \A i \in Frags : inv[i].pc # "idle" => C17_Dispatched(inv[i], C17_AdaptedWithHandler)

====
